---- MODULE Spec2Model ----
(***************************************************************************)
(* A model of the magi Game Boy core: the MMU (src/src/mmu.rs), the        *)
(* register bank and flag register (src/src/cpu/registers.rs), the opcode  *)
(* table and its handlers (src/src/cpu/opcodes.rs) and the run loop of the *)
(* SM83 (src/src/cpu/sm83.rs).                                             *)
(***************************************************************************)
EXTENDS Integers, Sequences, FiniteSets, TLC

VARIABLES
    mmu,         \* MMU: buffer name -> the cells of that Vec<u8> that differ from 0
    registers,   \* SM83.registers: the SM83RegisterBank
    clock,       \* SM83.m and SM83.t
    operations,  \* SM83.operations, the CPU's clone of the opcode table, held as the set
                 \* of opcode bytes it has no entry for (its entries are never changed)
    status,      \* "ready" (constructed), "running" (inside run), or the panic that ended it
    last,        \* the last call made: its name, its arguments and what it returned
    calls,       \* number of MMU calls the host has made
    presets,     \* number of register and flag presets the host has made
    steps        \* number of iterations of the run loop

vars == <<mmu, registers, clock, operations, status, last, calls, presets, steps>>

(***************************************************************************)
(* Bounds of the exploration.                                              *)
(***************************************************************************)
MaxCalls == 2
MaxPresets == 2
MaxSteps == 2

(***************************************************************************)
(* u8 / u16 arithmetic and the bitwise operators the code uses.            *)
(***************************************************************************)
U8 == 0 .. 255
U16 == 0 .. 65535

\* x ^ y, bit by bit; four bits at a time where those of y are all 0
RECURSIVE BitXor(_, _)
BitXor(x, y) ==
    IF x = 0 THEN y
    ELSE IF y = 0 THEN x
    ELSE IF y % 16 = 0 THEN (x % 16) + 16 * BitXor(x \div 16, y \div 16)
    ELSE (((x % 2) + (y % 2)) % 2) + 2 * BitXor(x \div 2, y \div 2)

RECURSIVE BitAnd(_, _)
BitAnd(x, y) ==
    IF x = 0 \/ y = 0 THEN 0
    ELSE ((x % 2) * (y % 2)) + 2 * BitAnd(x \div 2, y \div 2)

RECURSIVE BitOr(_, _)
BitOr(x, y) ==
    IF x = 0 THEN y
    ELSE IF y = 0 THEN x
    ELSE (IF x % 2 = 1 \/ y % 2 = 1 THEN 1 ELSE 0) + 2 * BitOr(x \div 2, y \div 2)

\* `!x` on a u8
BitNot8(x) == 255 - x

\* Option<T>: None is the empty sequence, Some(v) the one-element sequence
None == << >>
Some(v) == << v >>
IsSome(o) == Len(o) = 1
Unwrap(o) == o[1]

\* u16::from_le_bytes([first, second])
from_le_bytes(first, second) == first + 256 * second

\* u16::to_le_bytes(value)
to_le_bytes(value) == << value % 256, value \div 256 >>

\* u8::checked_add / u8::checked_sub and their u16 forms: None on overflow
checked_add8(x, y) == IF x + y > 255 THEN None ELSE Some(x + y)
checked_sub8(x, y) == IF x - y < 0 THEN None ELSE Some(x - y)
checked_add16(x, y) == IF x + y > 65535 THEN None ELSE Some(x + y)
checked_sub16(x, y) == IF x - y < 0 THEN None ELSE Some(x - y)

(***************************************************************************)
(* The MMU.                                                                *)
(***************************************************************************)
Buffers ==
    {"wram", "hram", "vram", "io", "cartridge", "cartridge_mbc",
     "cartridge_ram", "oam", "ie"}

\* the length MMU::new gives each Vec<u8>
BufLen ==
    [wram |-> 8192, hram |-> 128, vram |-> 8192, io |-> 128,
     cartridge |-> 16384, cartridge_mbc |-> 16384, cartridge_ram |-> 16384,
     oam |-> 160, ie |-> 1]

\* MMU::new: every buffer zero-filled.  A buffer is held as the function from
\* the offsets of its non-zero cells to their values; every other offset
\* below BufLen holds 0.
MMU_new == [buf \in Buffers |-> << >>]

\* Vec::get(offset)
VecGet(m, buf, offset) ==
    IF offset >= BufLen[buf] THEN None
    ELSE IF offset \in DOMAIN m[buf] THEN Some(m[buf][offset])
    ELSE Some(0)

\* a store that also fills the cell after the one it is given
VecSet_and_next(m, buf, offset, value) ==
    LET old == m[buf]
        cells == {offset} \cup (IF offset + 1 < BufLen[buf] THEN {offset + 1} ELSE {})
        dom == IF value = 0 THEN DOMAIN old \ cells ELSE DOMAIN old \cup cells
    IN  [m EXCEPT ![buf] = [o \in dom |-> IF o \in cells THEN value ELSE old[o]]]

\* `register[offset] = value` for an offset inside the buffer
VecSet(m, buf, offset, value) ==
    LET old == m[buf]
        dom == IF value = 0 THEN DOMAIN old \ {offset} ELSE DOMAIN old \cup {offset}
    IN  [m EXCEPT ![buf] = [o \in dom |-> IF o = offset THEN value ELSE old[o]]]

\* get_location without the arm that panics: 0xFEA0-0xFEFF falls to OAM
get_location_without_trap(addr) ==
    IF addr <= \h3FFF THEN [region |-> "Cartridge", value |-> addr]
    ELSE IF addr <= \h7FFF THEN [region |-> "CartridgeMBC", value |-> BitXor(addr, \h4000)]
    ELSE IF addr <= \h9FFF THEN [region |-> "VRAM", value |-> BitXor(addr, \h8000)]
    ELSE IF addr <= \hBFFF THEN [region |-> "CartridgeRAM", value |-> BitXor(addr, \hA000)]
    ELSE IF addr <= \hDFFF THEN [region |-> "WRAM", value |-> BitXor(addr, \hC000)]
    ELSE IF addr <= \hFDFF THEN [region |-> "EchoRAM", value |-> BitXor(addr, \hE000)]
    ELSE IF addr <= \hFEFF THEN [region |-> "OAM", value |-> BitXor(addr, \hFE00)]
    ELSE IF addr <= \hFF7F THEN [region |-> "IO", value |-> BitXor(addr, \hFF00)]
    ELSE IF addr <= \hFFFE THEN [region |-> "HRAM", value |-> BitXor(addr, \hFF80)]
    ELSE [region |-> "IE", value |-> \hFFFF]

\* MMU::get_location: the MemoryLocation of an address, or the panic
get_location(addr) ==
    IF addr <= \h3FFF THEN [region |-> "Cartridge", value |-> addr]
    ELSE IF addr <= \h7FFF THEN [region |-> "CartridgeMBC", value |-> BitXor(addr, \h4000)]
    ELSE IF addr <= \h9FFF THEN [region |-> "VRAM", value |-> BitXor(addr, \h8000)]
    ELSE IF addr <= \hBFFF THEN [region |-> "CartridgeRAM", value |-> BitXor(addr, \hA000)]
    ELSE IF addr <= \hDFFF THEN [region |-> "WRAM", value |-> BitXor(addr, \hC000)]
    ELSE IF addr <= \hFDFF THEN [region |-> "EchoRAM", value |-> BitXor(addr, \hE000)]
    ELSE IF addr <= \hFE9F THEN [region |-> "OAM", value |-> BitXor(addr, \hFE00)]
    ELSE IF addr <= \hFEFF THEN [region |-> "panic", value |-> addr]
    ELSE IF addr <= \hFF7F THEN [region |-> "IO", value |-> BitXor(addr, \hFF00)]
    ELSE IF addr <= \hFFFE THEN [region |-> "HRAM", value |-> BitXor(addr, \hFF80)]
    ELSE [region |-> "IE", value |-> \hFFFF]

\* whether get_location panics ("Invalid memory address")
InvalidAddress(addr) == get_location(addr).region = "panic"

\* to_register with Echo RAM in a buffer other than wram
to_register_echo_not_wram(location) ==
    [register |->
        CASE location.region = "Cartridge" -> "cartridge"
          [] location.region = "CartridgeMBC" -> "cartridge_mbc"
          [] location.region = "VRAM" -> "vram"
          [] location.region = "CartridgeRAM" -> "cartridge_ram"
          [] location.region = "WRAM" -> "wram"
          [] location.region = "EchoRAM" -> "cartridge_ram"
          [] location.region = "OAM" -> "oam"
          [] location.region = "HRAM" -> "hram"
          [] location.region = "IO" -> "io"
          [] location.region = "IE" -> "ie",
     offset |-> location.value]

\* MemoryLocation::to_register: the buffer a location lives in, and its offset
to_register(location) ==
    [register |->
        CASE location.region = "Cartridge" -> "cartridge"
          [] location.region = "CartridgeMBC" -> "cartridge_mbc"
          [] location.region = "VRAM" -> "vram"
          [] location.region = "CartridgeRAM" -> "cartridge_ram"
          [] location.region = "WRAM" -> "wram"
          [] location.region = "EchoRAM" -> "wram"
          [] location.region = "OAM" -> "oam"
          [] location.region = "HRAM" -> "hram"
          [] location.region = "IO" -> "io"
          [] location.region = "IE" -> "ie",
     offset |-> location.value]

\* MMU::read_byte for an address get_location accepts: Some(byte) or None
read_byte(m, addr) ==
    LET loc == to_register(get_location(addr))
    IN  VecGet(m, loc.register, loc.offset)

\* MMU::read_word for an address get_location accepts: Some(word) or None
read_word(m, addr) ==
    LET loc == to_register(get_location(addr))
        first == VecGet(m, loc.register, loc.offset)
        second == VecGet(m, loc.register, loc.offset + 1)
    IN  IF ~IsSome(first) THEN None
        ELSE IF ~IsSome(second) THEN None
        ELSE Some(from_le_bytes(Unwrap(first), Unwrap(second)))

\* whether `register[offset] = value` in write_byte panics (index out of bounds)
WriteByteOutOfBounds(addr) ==
    LET loc == to_register(get_location(addr))
    IN  loc.offset >= BufLen[loc.register]

\* MMU::write_byte for an address it does not panic on: the MMU afterwards
write_byte(m, addr, value) ==
    LET loc == to_register(get_location(addr))
    IN  VecSet(m, loc.register, loc.offset, value)

\* how a call of write_byte ends: "ok" or the panic
write_byte_outcome(addr) ==
    IF InvalidAddress(addr) THEN "panic_invalid_address"
    ELSE IF WriteByteOutOfBounds(addr) THEN "panic_index_out_of_bounds"
    ELSE "ok"

\* how a call of write_word ends, and the MMU it leaves: the first store may
\* have happened when the second one panics
write_word_outcome(addr) ==
    LET loc == to_register(get_location(addr))
    IN  IF InvalidAddress(addr) THEN "panic_invalid_address"
        ELSE IF loc.offset + 1 >= BufLen[loc.register] THEN "panic_index_out_of_bounds"
        ELSE "ok"

\* write_word that stores the high byte first
write_word_big_endian(m, addr, value) ==
    LET loc == to_register(get_location(addr))
        bytes == to_le_bytes(value)
        m1 == IF loc.offset < BufLen[loc.register]
              THEN VecSet(m, loc.register, loc.offset, bytes[2]) ELSE m
    IN  IF loc.offset + 1 < BufLen[loc.register]
        THEN VecSet(m1, loc.register, loc.offset + 1, bytes[1]) ELSE m1

write_word(m, addr, value) ==
    LET loc == to_register(get_location(addr))
        bytes == to_le_bytes(value)
        m1 == IF loc.offset < BufLen[loc.register]
              THEN VecSet(m, loc.register, loc.offset, bytes[1]) ELSE m
    IN  IF loc.offset + 1 < BufLen[loc.register]
        THEN VecSet(m1, loc.register, loc.offset + 1, bytes[2]) ELSE m1

(***************************************************************************)
(* The flag register and the register bank.                                *)
(***************************************************************************)
Flags == {"Zero", "Subtract", "HalfCarry", "Carry"}

\* Flag::value
Flag_value(flag) ==
    CASE flag = "Zero" -> \h80
      [] flag = "Subtract" -> \h40
      [] flag = "HalfCarry" -> \h20
      [] flag = "Carry" -> \h10

\* FlagRegister::new
FlagRegister_new == 0

\* FlagRegister::check: (flag.value() & self.value) == flag
check(value, flag) == BitAnd(Flag_value(flag), value) = Flag_value(flag)

\* set that assigns the flag's bit instead of or-ing it in
set_overwriting(value, flag) == Flag_value(flag)

\* FlagRegister::set: self.value |= flag
set(value, flag) == BitOr(value, Flag_value(flag))

\* FlagRegister::unset: self.value &= !flag
unset(value, flag) == BitAnd(value, BitNot8(Flag_value(flag)))

\* FlagRegister::clear
clear(value) == 0

\* SM83RegisterBank::new
SM83RegisterBank_new ==
    [a |-> 0, b |-> 0, c |-> 0, d |-> 0, e |-> 0, h |-> 0, l |-> 0,
     flags |-> FlagRegister_new, pc |-> 0, sp |-> 0, m |-> 0, t |-> 0]

\* combined with the first byte as the high one
combined_big_endian(first, second) == from_le_bytes(second, first)

\* SM83RegisterBank::combined
combined(first, second) == from_le_bytes(first, second)

\* SM83RegisterBank::split
split(value) == to_le_bytes(value)

\* SM83RegisterBank::hl
hl(r) == combined(r.h, r.l)

\* set_hl with the two bytes stored the other way round
set_hl_swapped(r, value) ==
    LET s == split(value)
    IN  [r EXCEPT !.h = s[2], !.l = s[1]]

\* SM83RegisterBank::set_hl
set_hl(r, value) ==
    LET s == split(value)
    IN  [r EXCEPT !.h = s[1], !.l = s[2]]

(***************************************************************************)
(* The handlers.  A handler takes the register bank and the MMU and gives  *)
(* the register bank and the MMU it leaves, and how it ended: "ok", or the *)
(* panic that aborted it (with the state at the panic).                    *)
(***************************************************************************)
Done(r, m) == [registers |-> r, mmu |-> m, outcome |-> "ok"]
Panicked(r, m, why) == [registers |-> r, mmu |-> m, outcome |-> why]

\* a nop that sets the Zero flag
nop_setting_zero(r, m) == Done([r EXCEPT !.flags = set(r.flags, "Zero")], m)

\* nop, and the empty handlers rotate_a_left_with_carry,
\* load_sp_into_immediate_address and stop
nop(r, m) == Done(r, m)

\* increment_hl_addr with wrapping_add in place of checked_add: 0xFF becomes
\* 0 in memory and Zero is set
increment_hl_addr_wrapping(r, m) ==
    LET r1 == [r EXCEPT !.flags = clear(r.flags)]
        addr == hl(r1)
    IN  IF InvalidAddress(addr) THEN Panicked(r1, m, "panic_invalid_address")
        ELSE LET byte == read_byte(m, addr)
             IN  IF ~IsSome(byte) THEN Panicked(r1, m, "panic_expect")
                 ELSE LET sum == (Unwrap(byte) + 1) % 256
                          r2 == IF sum = 0
                                THEN [r1 EXCEPT !.flags = set(r1.flags, "Zero")]
                                ELSE r1
                      IN  IF write_byte_outcome(addr) = "ok"
                          THEN Done(r2, write_byte(m, addr, sum))
                          ELSE Panicked(r2, m, write_byte_outcome(addr))

\* increment_hl_addr
increment_hl_addr(r, m) ==
    LET r1 == [r EXCEPT !.flags = clear(r.flags)]
        addr == hl(r1)
    IN  IF InvalidAddress(addr) THEN Panicked(r1, m, "panic_invalid_address")
        ELSE LET byte == read_byte(m, addr)
             IN  IF ~IsSome(byte) THEN Panicked(r1, m, "panic_expect")
                 ELSE LET sum == checked_add8(Unwrap(byte), 1)
                      IN  IF ~IsSome(sum)
                          THEN Done([r1 EXCEPT !.flags = set(r1.flags, "Carry")], m)
                          ELSE LET r2 == IF Unwrap(sum) = 0
                                         THEN [r1 EXCEPT !.flags = set(r1.flags, "Zero")]
                                         ELSE r1
                               IN  IF write_byte_outcome(addr) = "ok"
                                   THEN Done(r2, write_byte(m, addr, Unwrap(sum)))
                                   ELSE Panicked(r2, m, write_byte_outcome(addr))

\* increment8 that wraps on overflow as the hardware does
increment8_wrapping(reg, r, m) ==
    LET r1 == [r EXCEPT !.flags = clear(r.flags)]
        sum == (r1[reg] + 1) % 256
    IN  IF sum = 0
        THEN Done([r1 EXCEPT !.flags = set(r1.flags, "Zero"), ![reg] = 0], m)
        ELSE Done([r1 EXCEPT ![reg] = sum], m)

\* increment8!(reg)
increment8(reg, r, m) ==
    LET r1 == [r EXCEPT !.flags = clear(r.flags)]
        sum == checked_add8(r1[reg], 1)
    IN  IF ~IsSome(sum) THEN Done([r1 EXCEPT !.flags = set(r1.flags, "Carry")], m)
        ELSE IF Unwrap(sum) = 0
        THEN Done([r1 EXCEPT !.flags = set(r1.flags, "Zero"), ![reg] = 0], m)
        ELSE Done([r1 EXCEPT ![reg] = Unwrap(sum)], m)

\* decrement8 that wraps on underflow as the hardware does
decrement8_wrapping(reg, r, m) ==
    LET r1 == [r EXCEPT !.flags = clear(r.flags)]
        diff == (r1[reg] + 255) % 256
    IN  IF diff = 0
        THEN Done([r1 EXCEPT !.flags = set(r1.flags, "Zero"), ![reg] = 0], m)
        ELSE Done([r1 EXCEPT ![reg] = diff], m)

\* decrement8 that also sets the Subtract flag, as the hardware's DEC does
decrement8_setting_subtract(reg, r, m) ==
    LET r1 == [r EXCEPT !.flags = set(clear(r.flags), "Subtract")]
        diff == checked_sub8(r1[reg], 1)
    IN  IF ~IsSome(diff) THEN Done([r1 EXCEPT !.flags = set(r1.flags, "Carry")], m)
        ELSE IF Unwrap(diff) = 0
        THEN Done([r1 EXCEPT !.flags = set(r1.flags, "Zero"), ![reg] = 0], m)
        ELSE Done([r1 EXCEPT ![reg] = Unwrap(diff)], m)

\* decrement8!(reg)
decrement8(reg, r, m) ==
    LET r1 == [r EXCEPT !.flags = clear(r.flags)]
        diff == checked_sub8(r1[reg], 1)
    IN  IF ~IsSome(diff) THEN Done([r1 EXCEPT !.flags = set(r1.flags, "Carry")], m)
        ELSE IF Unwrap(diff) = 0
        THEN Done([r1 EXCEPT !.flags = set(r1.flags, "Zero"), ![reg] = 0], m)
        ELSE Done([r1 EXCEPT ![reg] = Unwrap(diff)], m)

\* store16 with the two bytes of the result stored the other way round
store16_swapped(regA, regB, r, m, result) ==
    IF ~IsSome(result) THEN Done([r EXCEPT !.flags = set(r.flags, "Carry")], m)
    ELSE LET r1 == IF Unwrap(result) = 0
                   THEN [r EXCEPT !.flags = set(r.flags, "Zero")] ELSE r
             ab == split(Unwrap(result))
         IN  Done([r1 EXCEPT ![regA] = ab[2], ![regB] = ab[1]], m)

\* the tail shared by increment16! and decrement16!: the match on the checked
\* result, then the split into the two cells (the flags are not cleared)
store16(regA, regB, r, m, result) ==
    IF ~IsSome(result) THEN Done([r EXCEPT !.flags = set(r.flags, "Carry")], m)
    ELSE LET r1 == IF Unwrap(result) = 0
                   THEN [r EXCEPT !.flags = set(r.flags, "Zero")] ELSE r
             ab == split(Unwrap(result))
         IN  Done([r1 EXCEPT ![regA] = ab[1], ![regB] = ab[2]], m)

\* increment16!(regA, regB)
increment16(regA, regB, r, m) ==
    store16(regA, regB, r, m, checked_add16(combined(r[regA], r[regB]), 1))

\* decrement16!(regA, regB)
decrement16(regA, regB, r, m) ==
    store16(regA, regB, r, m, checked_sub16(combined(r[regA], r[regB]), 1))

\* add_to_hl that adds the pair it is named after
add_to_hl_named_pair(regA, regB, r, m) ==
    LET value == checked_add16(hl(r), combined(r[regA], r[regB]))
    IN  IF ~IsSome(value) THEN Done([r EXCEPT !.flags = set(r.flags, "Carry")], m)
        ELSE LET r1 == IF Unwrap(value) = 0
                       THEN [r EXCEPT !.flags = set(r.flags, "Zero")] ELSE r
             IN  Done(set_hl(r1, Unwrap(value)), m)

\* add_to_hl!(regA, regB): adds hl() to hl(); regA and regB only name the handler
add_to_hl(regA, regB, r, m) ==
    LET value == checked_add16(hl(r), hl(r))
    IN  IF ~IsSome(value) THEN Done([r EXCEPT !.flags = set(r.flags, "Carry")], m)
        ELSE LET r1 == IF Unwrap(value) = 0
                       THEN [r EXCEPT !.flags = set(r.flags, "Zero")] ELSE r
             IN  Done(set_hl(r1, Unwrap(value)), m)

\* load_immediate8!(reg)
load_immediate8(reg, r, m, immediate) == Done([r EXCEPT ![reg] = immediate], m)

\* load_immediate16!(regA, regB)
load_immediate16(regA, regB, r, m, a, b) == Done([r EXCEPT ![regA] = a, ![regB] = b], m)

\* load_reg_into_reg16_addr with the first register of the pair as the high byte
load_reg_into_reg16_addr_big_endian(source, destA, destB, r, m) ==
    LET addr == combined(r[destB], r[destA])
    IN  IF write_byte_outcome(addr) = "ok"
        THEN Done(r, write_byte(m, addr, r[source]))
        ELSE Panicked(r, m, write_byte_outcome(addr))

\* load_reg_into_reg16_addr!(source, destA, destB)
load_reg_into_reg16_addr(source, destA, destB, r, m) ==
    LET addr == combined(r[destA], r[destB])
    IN  IF write_byte_outcome(addr) = "ok"
        THEN Done(r, write_byte(m, addr, r[source]))
        ELSE Panicked(r, m, write_byte_outcome(addr))

(***************************************************************************)
(* The opcode table.                                                       *)
(***************************************************************************)
\* Opcode::Unary / Binary / Ternary: the handler and its cycle count
Unary(handler, cycles) == [kind |-> "Unary", handler |-> handler, cycles |-> cycles]
Binary(handler, cycles) == [kind |-> "Binary", handler |-> handler, cycles |-> cycles]
Ternary(handler, cycles) == [kind |-> "Ternary", handler |-> handler, cycles |-> cycles]

\* Opcode::cycle_count
cycle_count(opcode) == opcode.cycles

\* the number of immediate bytes the run loop reads for a descriptor
arity(opcode) ==
    CASE opcode.kind = "Unary" -> 0
      [] opcode.kind = "Binary" -> 1
      [] opcode.kind = "Ternary" -> 2

\* the functions the macro invocations define (opcodes.rs 222-248), and the
\* hand-written ones, by name; imm holds the immediate bytes
invoke(handler, r, m, imm) ==
    CASE handler = "nop" -> nop(r, m)
      [] handler = "rotate_a_left_with_carry" -> nop(r, m)
      [] handler = "load_sp_into_immediate_address" -> nop(r, m)
      [] handler = "stop" -> nop(r, m)
      [] handler = "increment_hl_addr" -> increment_hl_addr(r, m)
      [] handler = "increment_a" -> increment8("a", r, m)
      [] handler = "increment_b" -> increment8("b", r, m)
      [] handler = "increment_c" -> increment8("c", r, m)
      [] handler = "increment_d" -> increment8("d", r, m)
      [] handler = "increment_e" -> increment8("e", r, m)
      [] handler = "increment_h" -> increment8("h", r, m)
      [] handler = "increment_l" -> increment8("l", r, m)
      [] handler = "increment_bc" -> increment16("b", "c", r, m)
      [] handler = "increment_de" -> increment16("d", "e", r, m)
      [] handler = "increment_hl" -> increment16("h", "l", r, m)
      [] handler = "decrement_b" -> decrement8("b", r, m)
      [] handler = "decrement_bc" -> decrement16("b", "c", r, m)
      [] handler = "decrement_de" -> decrement16("d", "e", r, m)
      [] handler = "decrement_hl" -> decrement16("h", "l", r, m)
      [] handler = "add_bc_to_hl" -> add_to_hl("b", "c", r, m)
      [] handler = "add_de_to_hl" -> add_to_hl("d", "e", r, m)
      [] handler = "add_hl_to_hl" -> add_to_hl("h", "l", r, m)
      [] handler = "load_immediate_into_b" -> load_immediate8("b", r, m, imm[1])
      [] handler = "load_immediate_into_bc" -> load_immediate16("b", "c", r, m, imm[1], imm[2])
      [] handler = "load_a_into_bc_address" -> load_reg_into_reg16_addr("a", "b", "c", r, m)

\* the entry the table of opcodes.rs 264-519 lists for an opcode byte; every
\* entry not listed here is Opcode::Unary(nop, 1)
table_entry(code) ==
        CASE code = \h01 -> Ternary("load_immediate_into_bc", 1)
          [] code = \h02 -> Unary("load_a_into_bc_address", 1)
          [] code = \h03 -> Unary("increment_bc", 1)
          [] code = \h04 -> Unary("increment_b", 1)
          [] code = \h05 -> Unary("decrement_b", 1)
          [] code = \h06 -> Binary("load_immediate_into_b", 1)
          [] code = \h07 -> Unary("rotate_a_left_with_carry", 1)
          [] code = \h08 -> Ternary("load_sp_into_immediate_address", 1)
          [] code = \h09 -> Unary("add_bc_to_hl", 1)
          [] code = \h0B -> Unary("decrement_bc", 1)
          [] code = \h0C -> Unary("increment_c", 1)
          [] code = \h10 -> Binary("stop", 1)
          [] code = \h13 -> Unary("increment_de", 1)
          [] code = \h14 -> Unary("increment_d", 1)
          [] code = \h19 -> Unary("add_de_to_hl", 1)
          [] code = \h1B -> Unary("decrement_de", 1)
          [] code = \h1C -> Unary("increment_e", 1)
          [] code = \h23 -> Unary("increment_hl", 1)
          [] code = \h24 -> Unary("increment_h", 1)
          [] code = \h29 -> Unary("add_hl_to_hl", 1)
          [] code = \h2B -> Unary("decrement_hl", 1)
          [] code = \h2C -> Unary("increment_l", 1)
          [] code = \h34 -> Unary("increment_hl_addr", 1)
          [] code = \h3C -> Unary("increment_a", 1)
          [] OTHER -> Unary("nop", 1)

\* a table that lost the line of 0xD3
SM83_OPERATIONS_without_D3 == [code \in U8 \ {\hD3} |-> table_entry(code)]

\* SM83_OPERATIONS: the HashMap built from the 256 lines
SM83_OPERATIONS == [code \in U8 |-> table_entry(code)]

(***************************************************************************)
(* The CPU and its run loop.                                               *)
(***************************************************************************)
\* SM83::new: `operations: SM83_OPERATIONS.clone()`, a table that lacks no entry
SM83_new_operations == {}

\* HashMap::get on the CPU's table: Some(descriptor) or None
operations_get(ops, code) ==
    IF code \in ops \/ code \notin DOMAIN SM83_OPERATIONS THEN None
    ELSE Some(SM83_OPERATIONS[code])

\* SM83::new: the clock fields m and t
SM83_new_clock == [m |-> 0, t |-> 0]

\* `addr + 1` on a u16.  The loop adds 1 only to an address it has just read
\* a byte from, and no byte is read from 0xFFFF, so the sum never overflows.
next_addr(addr) == (addr + 1) % 65536

\* fetch that takes an absent byte for a 0 and goes on
fetch_absent_as_zero(m, addr) ==
    IF InvalidAddress(addr) THEN [outcome |-> "panic_invalid_address", byte |-> 0]
    ELSE IF ~IsSome(read_byte(m, addr)) THEN [outcome |-> "ok", byte |-> 0]
    ELSE [outcome |-> "ok", byte |-> Unwrap(read_byte(m, addr))]

\* what one iteration found at an address: the panic of get_location, the
\* retry of an absent byte, or the byte
fetch(m, addr) ==
    IF InvalidAddress(addr) THEN [outcome |-> "panic_invalid_address", byte |-> 0]
    ELSE IF ~IsSome(read_byte(m, addr)) THEN [outcome |-> "retry", byte |-> 0]
    ELSE [outcome |-> "ok", byte |-> Unwrap(read_byte(m, addr))]

\* fetch_immediates that hands the two bytes over in the other order
fetch_immediates_swapped(m, pc, n) ==
    LET addr == next_addr(pc)
        fa == fetch(m, addr)
        fb == fetch(m, next_addr(addr))
    IN  IF n = 0 THEN [outcome |-> "ok", imm |-> << >>]
        ELSE IF fa.outcome # "ok" THEN [outcome |-> fa.outcome, imm |-> << >>]
        ELSE IF n = 1 THEN [outcome |-> "ok", imm |-> << fa.byte >>]
        ELSE IF fb.outcome # "ok" THEN [outcome |-> fb.outcome, imm |-> << >>]
        ELSE [outcome |-> "ok", imm |-> << fb.byte, fa.byte >>]

\* the immediate bytes of an instruction at pc, read in order at pc + 1 and
\* pc + 2; the first read that does not give a byte ends the iteration
fetch_immediates(m, pc, n) ==
    LET addr == next_addr(pc)
        fa == fetch(m, addr)
        fb == fetch(m, next_addr(addr))
    IN  IF n = 0 THEN [outcome |-> "ok", imm |-> << >>]
        ELSE IF fa.outcome # "ok" THEN [outcome |-> fa.outcome, imm |-> << >>]
        ELSE IF n = 1 THEN [outcome |-> "ok", imm |-> << fa.byte >>]
        ELSE IF fb.outcome # "ok" THEN [outcome |-> fb.outcome, imm |-> << >>]
        ELSE [outcome |-> "ok", imm |-> << fa.byte, fb.byte >>]

\* set_clock that adds to the clock registers
set_clock_accumulating(r, opcode) ==
    [r EXCEPT !.m = (r.m + cycle_count(opcode)) % 256,
              !.t = (r.t + cycle_count(opcode) * 4) % 256]

\* the clock registers after an executed instruction (sm83.rs 73-76)
set_clock(r, opcode) ==
    [r EXCEPT !.m = cycle_count(opcode), !.t = (cycle_count(opcode) * 4) % 256]

\* how an iteration ends: the registers and the MMU it leaves, the opcode
\* byte it fetched, and the outcome: "executed", "retry" (an absent byte:
\* `continue`), or the panic
ended(r, m, code, outcome) ==
    [registers |-> r, mmu |-> m, code |-> code, outcome |-> outcome]

\* the end of an iteration, from the handler's return: the clock registers
\* are set unless the handler panicked
after_handler(code, opcode, res) ==
    IF res.outcome # "ok" THEN ended(res.registers, res.mmu, code, res.outcome)
    ELSE ended(set_clock(res.registers, opcode), res.mmu, code, "executed")

\* the match on the descriptor: the immediates are read, then the handler is
\* called with them
dispatch(r, m, code, opcode, imms) ==
    IF imms.outcome # "ok" THEN ended(r, m, code, imms.outcome)
    ELSE after_handler(code, opcode, invoke(opcode.handler, r, m, imms.imm))

\* decode that goes on to the next iteration when the table has no entry
decode_skipping_unknown(r, m, code, entry) ==
    IF ~IsSome(entry) THEN ended(r, m, code, "retry")
    ELSE dispatch(r, m, code, Unwrap(entry),
                  fetch_immediates(m, r.pc, arity(Unwrap(entry))))

\* the lookup of the fetched byte in the CPU's table
decode(r, m, code, entry) ==
    IF ~IsSome(entry) THEN ended(r, m, code, "panic_unknown_opcode")
    ELSE dispatch(r, m, code, Unwrap(entry),
                  fetch_immediates(m, r.pc, arity(Unwrap(entry))))

\* the fetch at pc
fetched(r, m, ops, code) ==
    IF code.outcome # "ok" THEN ended(r, m, 0, code.outcome)
    ELSE decode(r, m, code.byte, operations_get(ops, code.byte))

\* one iteration of the loop of SM83::run
iteration(r, m, ops) == fetched(r, m, ops, fetch(m, r.pc))

(***************************************************************************)
(* The inputs of the exploration.                                          *)
(***************************************************************************)
\* every opcode the table gives a handler of its own, and two it leaves to nop
OpcodeBytes ==
    {\h00, \h01, \h02, \h03, \h04, \h05, \h06, \h07, \h08, \h09, \h0B, \h0C,
     \h10, \h13, \h14, \h19, \h1B, \h1C, \h23, \h24, \h29, \h2B, \h2C, \h34,
     \h3C, \hD3, \hFF}

\* a byte no cell holds at construction, used as immediate operand and as data
DataByte == \hFF

\* the bytes the host stores before it calls run: an opcode at 0x0000, the
\* operands behind it, an opcode with an operand at the last address of High
\* RAM, and one store in the unusable range
ProgramBytes ==
    ({0} \X OpcodeBytes) \cup ({1, 2} \X {DataByte})
        \cup {<<\hFFFE, \h06>>, <<\hFEA0, DataByte>>}

\* the words the host stores: an opcode with its first operand, and one store
\* in the unusable range
ProgramWords == {<<0, \h1206>>, <<\hFEF0, \h1206>>}

\* the addresses the host reads
ProgramReads == {\hFEA0}

\* the values the host gives the byte registers before it calls run: 0xFF, the
\* value an increment overflows at, for each; 0x01, the value a decrement
\* lands on zero from, for the low cells of BC and HL; 0xFE, which puts BC and
\* HL in 0xFE00-0xFEFF, for their high cells
RegisterNames == {"a", "b", "c", "d", "e", "h", "l"}
RegisterPresets ==
    (RegisterNames \X {\hFF}) \cup ({"b", "h"} \X {\h01}) \cup ({"c", "l"} \X {\hFE})

\* the values the host gives pc: the unusable range, the last address of
\* High RAM, and the address of the interrupt-enable register
PcValues == {\hFEA0, \hFFFE, \hFFFF}

\* the addresses and values of the calls on an MMU by itself: the first and
\* last address of every region, the unusable range, and addresses of Work
\* RAM and Echo RAM with the same offset
ProbeAddresses ==
    {\h0000, \h3FFF, \h4000, \h7FFF, \h8000, \h9FFF, \hA000, \hBFFF,
     \hC000, \hC010, \hDDFF, \hDE00, \hDFFF, \hE000, \hE010, \hFDFF,
     \hFE00, \hFE9F, \hFEA0, \hFEFF, \hFF00, \hFF7F, \hFF80, \hFFFE, \hFFFF}
ProbeBytes == {\h12, \h34}
ProbeWords == {\h1234}

(***************************************************************************)
(* The state machine.  The host first makes its MMU calls (it loads the    *)
(* program), then presets registers and flags, then calls run, which never *)
(* returns.  MMU calls and presets touch disjoint state, so every memory   *)
(* and register bank an interleaving of them builds is built in this order *)
(* too.                                                                    *)
(***************************************************************************)
NoCall == [op |-> "new", addr |-> 0, value |-> 0, ret |-> None, outcome |-> "ok"]

\* GB::new: SM83::new and MMU::new
Init ==
    /\ mmu = MMU_new
    /\ registers = SM83RegisterBank_new
    /\ clock = SM83_new_clock
    /\ operations = SM83_new_operations
    /\ status = "ready"
    /\ last = NoCall
    /\ calls = 0
    /\ presets = 0
    /\ steps = 0

\* what `last` holds after a preset
APreset == [op |-> "preset", addr |-> 0, value |-> 0, ret |-> None, outcome |-> "ok"]

\* the status a call that ended with `outcome` leaves
after(outcome) == IF outcome = "ok" THEN "ready" ELSE outcome

\* a call of MMU::read_byte(addr) by the host
ReadByte(addr) ==
    /\ status = "ready"
    /\ presets = 0
    /\ calls < MaxCalls
    /\ calls' = calls + 1
    /\ LET outcome == IF InvalidAddress(addr) THEN "panic_invalid_address" ELSE "ok"
       IN  /\ status' = after(outcome)
           /\ last' = [op |-> "read_byte", addr |-> addr, value |-> 0,
                       ret |-> IF outcome = "ok" THEN read_byte(mmu, addr) ELSE None,
                       outcome |-> outcome]
    /\ UNCHANGED <<mmu, registers, clock, operations, presets, steps>>

\* a call of MMU::read_word(addr) by the host
ReadWord(addr) ==
    /\ status = "ready"
    /\ presets = 0
    /\ calls < MaxCalls
    /\ calls' = calls + 1
    /\ LET outcome == IF InvalidAddress(addr) THEN "panic_invalid_address" ELSE "ok"
       IN  /\ status' = after(outcome)
           /\ last' = [op |-> "read_word", addr |-> addr, value |-> 0,
                       ret |-> IF outcome = "ok" THEN read_word(mmu, addr) ELSE None,
                       outcome |-> outcome]
    /\ UNCHANGED <<mmu, registers, clock, operations, presets, steps>>

\* a call of MMU::write_byte(addr, value) by the host
WriteByte(addr, value) ==
    /\ status = "ready"
    /\ presets = 0
    /\ calls < MaxCalls
    /\ calls' = calls + 1
    /\ LET outcome == write_byte_outcome(addr)
       IN  /\ status' = after(outcome)
           /\ mmu' = IF outcome = "ok" THEN write_byte(mmu, addr, value) ELSE mmu
           /\ last' = [op |-> "write_byte", addr |-> addr, value |-> value,
                       ret |-> None, outcome |-> outcome]
    /\ UNCHANGED <<registers, clock, operations, presets, steps>>

\* a call of MMU::write_word(addr, value) by the host
WriteWord(addr, value) ==
    /\ status = "ready"
    /\ presets = 0
    /\ calls < MaxCalls
    /\ calls' = calls + 1
    /\ LET outcome == write_word_outcome(addr)
       IN  /\ status' = after(outcome)
           /\ mmu' = IF outcome = "panic_invalid_address" THEN mmu
                     ELSE write_word(mmu, addr, value)
           /\ last' = [op |-> "write_word", addr |-> addr, value |-> value,
                       ret |-> None, outcome |-> outcome]
    /\ UNCHANGED <<registers, clock, operations, presets, steps>>

\* the host stores into a pub byte field of SM83RegisterBank
PresetRegister(reg, value) ==
    /\ status = "ready"
    /\ presets < MaxPresets
    /\ presets' = presets + 1
    /\ registers' = [registers EXCEPT ![reg] = value]
    /\ last' = APreset
    /\ UNCHANGED <<mmu, clock, operations, status, calls, steps>>

\* the host stores into the pub field pc
PresetPc(value) ==
    /\ status = "ready"
    /\ presets < MaxPresets
    /\ presets' = presets + 1
    /\ registers' = [registers EXCEPT !.pc = value]
    /\ last' = APreset
    /\ UNCHANGED <<mmu, clock, operations, status, calls, steps>>

\* the host calls FlagRegister::set on the pub field flags
SetFlag(flag) ==
    /\ status = "ready"
    /\ presets < MaxPresets
    /\ presets' = presets + 1
    /\ registers' = [registers EXCEPT !.flags = set(registers.flags, flag)]
    /\ last' = APreset
    /\ UNCHANGED <<mmu, clock, operations, status, calls, steps>>

\* one iteration of the loop of SM83::run; the first one is the call of run
Step ==
    /\ status \in {"ready", "running"}
    /\ steps < MaxSteps
    /\ steps' = steps + 1
    /\ \E it \in {iteration(registers, mmu, operations)} :
           /\ registers' = it.registers
           /\ mmu' = it.mmu
           /\ status' = IF it.outcome \in {"executed", "retry"} THEN "running"
                        ELSE it.outcome
           /\ last' = [op |-> "run", addr |-> registers.pc, value |-> it.code,
                       ret |-> None, outcome |-> it.outcome]
    /\ UNCHANGED <<clock, operations, calls, presets>>

Next ==
    \/ \E w \in ProgramBytes : WriteByte(w[1], w[2])
    \/ \E w \in ProgramWords : WriteWord(w[1], w[2])
    \/ \E addr \in ProgramReads : ReadByte(addr)
    \/ \E addr \in ProgramReads : ReadWord(addr)
    \/ \E p \in RegisterPresets : PresetRegister(p[1], p[2])
    \/ \E value \in PcValues : PresetPc(value)
    \/ \E flag \in Flags : SetFlag(flag)
    \/ Step

Spec == Init /\ [][Next]_vars

\* the calls on an MMU by itself
NextMMU ==
    \/ \E addr \in ProbeAddresses, value \in ProbeBytes : WriteByte(addr, value)
    \/ \E addr \in ProbeAddresses, value \in ProbeWords : WriteWord(addr, value)
    \/ \E addr \in ProbeAddresses : ReadByte(addr)
    \/ \E addr \in ProbeAddresses : ReadWord(addr)

SpecMMU == Init /\ [][NextMMU]_vars

\* a CPU whose table lacks the entry of one opcode byte (an SM83 built with
\* an OperationsMap that is not the whole SM83_OPERATIONS)
MissingCodes == {\hD3}

InitPartial ==
    /\ mmu = MMU_new
    /\ registers = SM83RegisterBank_new
    /\ clock = SM83_new_clock
    /\ operations \in {{code} : code \in MissingCodes}
    /\ status = "ready"
    /\ last = NoCall
    /\ calls = 0
    /\ presets = 0
    /\ steps = 0

SpecPartial == InitPartial /\ [][Next]_vars

(***************************************************************************)
(* The properties.                                                         *)
(***************************************************************************)
\* the step is an iteration of the run loop
Stepped == steps' = steps + 1

\* the step is a call of the MMU by the host
Called == calls' = calls + 1

\* the iteration that starts here fetches opcode byte k at pc
Fetches(k) ==
    /\ ~InvalidAddress(registers.pc)
    /\ read_byte(mmu, registers.pc) = Some(k)

\* the iteration that starts here fetches an opcode byte at pc, and that byte
FetchesSome ==
    /\ ~InvalidAddress(registers.pc)
    /\ IsSome(read_byte(mmu, registers.pc))

FetchedByte == Unwrap(read_byte(mmu, registers.pc))

ExactlyFlags(value, fs) == \A f \in Flags : check(value, f) <=> f \in fs

Unusable == \hFEA0 .. \hFEFF
EchoRam == \hE000 .. \hFDFF
EchoedWorkRam == \hC000 .. \hDDFF

\* C1: for every address outside 0xFEA0-0xFEFF get_location gives a region
\* and an offset below the length of that region's buffer, so read_byte never
\* returns None for such an address.
C1_ReadNeverAbsent ==
    (last.op = "read_byte" /\ last.addr \notin Unusable) =>
        /\ last.outcome = "ok"
        /\ to_register(get_location(last.addr)).offset
               < BufLen[to_register(get_location(last.addr)).register]
        /\ IsSome(last.ret)

\* C2: Echo RAM aliases Work RAM: after write_byte(0xC000 + o, v), read_byte(0xE000 + o)
\* is v, and after write_byte(0xE000 + o, v), read_byte(0xC000 + o) is v, for every
\* offset o for which 0xE000 + o is an address of Echo RAM, after any earlier writes;
\* and at all times the two addresses read the same byte.
C2_EchoAliasesWorkRam ==
    /\ (last.op = "write_byte" /\ last.addr \in EchoedWorkRam) =>
           /\ last.outcome = "ok"
           /\ read_byte(mmu, last.addr + \h2000) = Some(last.value)
    /\ (last.op = "write_byte" /\ last.addr \in EchoRam) =>
           /\ last.outcome = "ok"
           /\ read_byte(mmu, last.addr - \h2000) = Some(last.value)
    /\ \A addr \in ProbeAddresses \cap EchoRam :
           read_byte(mmu, addr) = read_byte(mmu, addr - \h2000)

\* C2 witness: a byte written to Work RAM at 0xC010, after an earlier write,
\* is read at 0xE010
C2_Witness ==
    /\ calls = 2
    /\ last.op = "write_byte"
    /\ last.addr = \hC010
    /\ last.value = \h34
    /\ read_byte(mmu, \hE010) = Some(\h34)

\* C3: write_byte has no failure mode: for every address outside 0xFEA0-0xFEFF
\* and every byte v, write_byte(a, v) ends without a panic and read_byte(a) then
\* returns v.
C3_WriteThenRead ==
    (last.op = "write_byte" /\ last.addr \notin Unusable) =>
        /\ last.outcome = "ok"
        /\ read_byte(mmu, last.addr) = Some(last.value)

\* C4: every access to 0xFEA0-0xFEFF is fatal: read_byte, read_word, write_byte
\* and write_word there, the fetch of an opcode with pc there, opcode 0x02 with
\* combined(b, c) there and opcode 0x34 with hl() there all end in the panic of
\* get_location, and the step that panics changes no memory byte.
C4_UnusableStep ==
    /\ (Called /\ last'.addr \in Unusable) => status' = "panic_invalid_address"
    /\ (Stepped /\ registers.pc \in Unusable) => status' = "panic_invalid_address"
    /\ (Stepped /\ Fetches(\h02) /\ combined(registers.b, registers.c) \in Unusable) =>
           status' = "panic_invalid_address"
    /\ (Stepped /\ Fetches(\h34) /\ hl(registers) \in Unusable) =>
           status' = "panic_invalid_address"
    /\ status' = "panic_invalid_address" => mmu' = mmu

C4_UnusableIsFatal == [][C4_UnusableStep]_vars

\* C4 witness: opcode 0x02 with BC in the unusable range has panicked
C4_Witness ==
    /\ status = "panic_invalid_address"
    /\ last.op = "run"
    /\ last.value = \h02
    /\ combined(registers.b, registers.c) \in Unusable

\* the register an 8-bit increment opcode names
Increment8Register ==
    [k \in {\h04, \h0C, \h14, \h1C, \h24, \h2C, \h3C} |->
        CASE k = \h04 -> "b" [] k = \h0C -> "c" [] k = \h14 -> "d" [] k = \h1C -> "e"
          [] k = \h24 -> "h" [] k = \h2C -> "l" [] k = \h3C -> "a"]

\* C5: an 8-bit register increment (0x04, 0x0C, 0x14, 0x1C, 0x24, 0x2C, 0x3C)
\* of a register holding r, whatever the flags before: at r = 0xFF exactly Carry
\* is set and the register still holds r; otherwise the register holds r + 1 and,
\* if that is zero, exactly Zero is set, else no flag is set.
C5_Increment8Step ==
    \A k \in DOMAIN Increment8Register :
        (Stepped /\ Fetches(k)) =>
            LET reg == Increment8Register[k]
                r == registers[reg]
            IN  IF r = 255
                THEN /\ registers'[reg] = r
                     /\ ExactlyFlags(registers'.flags, {"Carry"})
                ELSE /\ registers'[reg] = r + 1
                     /\ IF r + 1 = 0
                        THEN ExactlyFlags(registers'.flags, {"Zero"})
                        ELSE ExactlyFlags(registers'.flags, {})

C5_Increment8 == [][C5_Increment8Step]_vars

\* C5 witness: opcode 0x04 has run with B = 0xFF and left exactly Carry set
C5_Witness ==
    /\ last.op = "run"
    /\ last.value = \h04
    /\ last.outcome = "executed"
    /\ registers.b = 255
    /\ ExactlyFlags(registers.flags, {"Carry"})

\* the fields of the register bank other than the clock registers m and t
BankFields == {"a", "b", "c", "d", "e", "h", "l", "flags", "pc", "sp"}

\* C6: an iteration of the run loop with opcode byte k at pc has, on the
\* registers, the flags and the memory, the effect of the table's handler for k
\* called with no immediate (arity 0), the byte at pc + 1 (arity 1), or the
\* bytes at pc + 1 and pc + 2 in that order (arity 2); with 0x04 at 0x0000,
\* pc = 0 and B = 0xFF, B is 0xFF and Carry is set after the step.
C6_IterationStep ==
    /\ (Stepped /\ FetchesSome) =>
               LET pc == registers.pc
                   k == FetchedByte
                   n == arity(SM83_OPERATIONS[k])
                   readable ==
                       \A i \in 1 .. n :
                           /\ pc + i <= 65535
                           /\ pc + i \notin Unusable
                           /\ IsSome(read_byte(mmu, pc + i))
                   imm == [i \in 1 .. n |-> Unwrap(read_byte(mmu, pc + i))]
               IN  readable =>
                       \E res \in {invoke(SM83_OPERATIONS[k].handler, registers, mmu, imm)} :
                           /\ mmu' = res.mmu
                           /\ \A f \in BankFields : registers'[f] = res.registers[f]
    /\ (Stepped /\ registers.pc = 0 /\ Fetches(\h04) /\ registers.b = 255) =>
           /\ registers'.b = 255
           /\ check(registers'.flags, "Carry")

C6_IterationIsHandler == [][C6_IterationStep]_vars

\* C6 witness: opcode 0x01 has run with its first immediate byte 0xFF and its
\* second 0x00
C6_Witness ==
    /\ last.op = "run"
    /\ last.value = \h01
    /\ last.outcome = "executed"
    /\ registers.b = 255
    /\ registers.c = 0

\* C7: an executed instruction leaves m at its cycle cost and t at 4 * m,
\* whatever they held; t = 4 * m in every state; after opcode 0x00, m = 1 and t = 4.
C7_ClockStep ==
    /\ registers'.t = 4 * registers'.m
    /\ (Stepped /\ FetchesSome /\ last'.outcome = "executed") =>
           /\ registers'.m = cycle_count(SM83_OPERATIONS[FetchedByte])
           /\ registers'.t = 4 * cycle_count(SM83_OPERATIONS[FetchedByte])
    /\ (Stepped /\ Fetches(0) /\ last'.outcome = "executed") =>
           (registers'.m = 1 /\ registers'.t = 4)

C8_PcAdvanceStep ==
    (Stepped /\ FetchesSome /\ last'.outcome = "executed") =>
        registers'.pc = (registers.pc + 1 + arity(SM83_OPERATIONS[FetchedByte])) % 65536

C8_PcAdvances == [][C8_PcAdvanceStep]_vars

\* C9: the built table has exactly one descriptor for every byte 0x00-0xFF,
\* that of 0x00 being the no-op of arity 0, and a run against it never ends in
\* the panic "Unknown opcode".
C9_TableTotal ==
    /\ DOMAIN SM83_OPERATIONS = U8
    /\ SM83_OPERATIONS[0] = Unary("nop", 1)
    /\ arity(SM83_OPERATIONS[0]) = 0
    /\ \A code \in OpcodeBytes : IsSome(operations_get(operations, code))
    /\ status # "panic_unknown_opcode"

\* C9 witness: the byte 0xD3, which the table leaves to the no-op, was fetched
\* and executed
C9_Witness ==
    /\ last.op = "run"
    /\ last.value = \hD3
    /\ last.outcome = "executed"

\* C10: when the CPU's table has no entry for the byte fetched at pc, the
\* iteration ends in the panic "Unknown opcode" at that fetch and changes no
\* register, flag, clock or memory byte.
C10_UnknownOpcodeStep ==
    (Stepped /\ FetchesSome /\ FetchedByte \in operations) =>
        /\ status' = "panic_unknown_opcode"
        /\ registers' = registers
        /\ clock' = clock
        /\ mmu' = mmu

C10_UnknownOpcodeIsFatal == [][C10_UnknownOpcodeStep]_vars

\* C10 witness: the byte 0xD3, missing from the table, was fetched and the run
\* has panicked
C10_Witness ==
    /\ status = "panic_unknown_opcode"
    /\ last.op = "run"
    /\ last.value = \hD3
    /\ \hD3 \in operations

(***************************************************************************)
(* The pure functions by themselves: combined, split and get_location,     *)
(* each applied to every input it has.                                     *)
(***************************************************************************)
\* the 16-bit value a caller is about to pass: as a word, or as its two bytes
AnInput(word) ==
    [op |-> "input", addr |-> word, value |-> 0, ret |-> None, outcome |-> "ok"]

InitPure ==
    /\ mmu = MMU_new
    /\ registers = SM83RegisterBank_new
    /\ clock = SM83_new_clock
    /\ operations = SM83_new_operations
    /\ status = "ready"
    /\ last \in {AnInput(word) : word \in U16}
    /\ calls = 0
    /\ presets = 0
    /\ steps = 0

\* a call of SM83RegisterBank::combined(first, second), the two bytes being
\* those of the input
CallCombined ==
    /\ last.op = "input"
    /\ \E first \in {last.addr % 256}, second \in {last.addr \div 256} :
           last' = [op |-> "combined", addr |-> first, value |-> second,
                    ret |-> Some(combined(first, second)), outcome |-> "ok"]
    /\ UNCHANGED <<mmu, registers, clock, operations, status, calls, presets, steps>>

\* a call of SM83RegisterBank::split(value)
CallSplit ==
    /\ last.op = "input"
    /\ last' = [op |-> "split", addr |-> last.addr, value |-> 0,
                ret |-> split(last.addr), outcome |-> "ok"]
    /\ UNCHANGED <<mmu, registers, clock, operations, status, calls, presets, steps>>

\* a call of MMU::get_location(addr): the offset it gives is held in value,
\* the region in region
CallGetLocation ==
    /\ last.op = "input"
    /\ \E location \in {get_location(last.addr)} :
           \E outcome \in {IF location.region = "panic"
                           THEN "panic_invalid_address" ELSE "ok"} :
               /\ last' = [op |-> "get_location", addr |-> last.addr,
                           value |-> location.value, ret |-> None,
                           region |-> location.region, outcome |-> outcome]
               /\ status' = after(outcome)
    /\ UNCHANGED <<mmu, registers, clock, operations, calls, presets, steps>>

NextPure ==
    \/ CallCombined
    \/ CallSplit
    \/ CallGetLocation

SpecPure == InitPure /\ [][NextPure]_vars

\* C11: split is the inverse of combined: for all bytes lo and hi,
\* combined(lo, hi) = lo + 256 * hi and split of it is (lo, hi); for every
\* 16-bit v, split(v) is two bytes and combined of them is v.
C11_SplitInvertsCombined ==
    /\ last.op = "combined" =>
           /\ last.ret = Some(last.addr + 256 * last.value)
           /\ split(Unwrap(last.ret)) = <<last.addr, last.value>>
    /\ last.op = "split" =>
           /\ Len(last.ret) = 2
           /\ last.ret[1] \in U8
           /\ last.ret[2] \in U8
           /\ combined(last.ret[1], last.ret[2]) = last.addr

\* C11 witness: combined(0x34, 0x12) was called and gave 0x1234
C11_Witness ==
    /\ last.op = "combined"
    /\ last.addr = \h34
    /\ last.value = \h12
    /\ last.ret = Some(\h1234)

\* the base address of each of the ten regions
RegionBase ==
    [Cartridge |-> \h0000, CartridgeMBC |-> \h4000, VRAM |-> \h8000,
     CartridgeRAM |-> \hA000, WRAM |-> \hC000, EchoRAM |-> \hE000,
     OAM |-> \hFE00, IO |-> \hFF00, HRAM |-> \hFF80, IE |-> \hFFFF]

\* C19: for every address a of a region with base b, a XOR b = a - b, and the
\* offset get_location gives for a is a - b.
C19_XorIsSubtraction ==
    (last.op = "get_location" /\ last.outcome = "ok") =>
        /\ BitXor(last.addr, RegionBase[last.region]) = last.addr - RegionBase[last.region]
        /\ last.value = last.addr - RegionBase[last.region]

(***************************************************************************)
(* The register bank and its flag register under the calls of a host: the  *)
(* host loads an instruction, then stores into registers and calls set_hl, *)
(* set, unset and clear, then calls run.                                   *)
(***************************************************************************)
\* the words the host passes to set_hl: both bytes different, both 0xFF, and
\* a high byte of 0
HlWords == {\h1234, \hFFFF, \h00FF}

\* the instructions the host loads at 0x0000: an 8-bit increment, an 8-bit
\* decrement, a 16-bit decrement and an add to HL
BankProgram == {0} \X {\h04, \h05, \h0B, \h29}

\* what `last` holds after a call on the register bank
BankCall(op, value, flag) ==
    [op |-> op, addr |-> 0, value |-> value, ret |-> None, flag |-> flag,
     outcome |-> "ok"]

\* a call of SM83RegisterBank::set_hl(value) by the host
CallSetHl(value) ==
    /\ status = "ready"
    /\ presets < MaxPresets
    /\ presets' = presets + 1
    /\ registers' = set_hl(registers, value)
    /\ last' = BankCall("set_hl", value, "")
    /\ UNCHANGED <<mmu, clock, operations, status, calls, steps>>

\* the host calls set_hl(hl())
CallSetHlFromHl ==
    /\ status = "ready"
    /\ presets < MaxPresets
    /\ presets' = presets + 1
    /\ registers' = set_hl(registers, hl(registers))
    /\ last' = BankCall("set_hl_from_hl", hl(registers), "")
    /\ UNCHANGED <<mmu, clock, operations, status, calls, steps>>

\* a call of FlagRegister::set(flag) by the host
CallSet(flag) ==
    /\ status = "ready"
    /\ presets < MaxPresets
    /\ presets' = presets + 1
    /\ registers' = [registers EXCEPT !.flags = set(registers.flags, flag)]
    /\ last' = BankCall("set", 0, flag)
    /\ UNCHANGED <<mmu, clock, operations, status, calls, steps>>

\* a call of FlagRegister::unset(flag) by the host
CallUnset(flag) ==
    /\ status = "ready"
    /\ presets < MaxPresets
    /\ presets' = presets + 1
    /\ registers' = [registers EXCEPT !.flags = unset(registers.flags, flag)]
    /\ last' = BankCall("unset", 0, flag)
    /\ UNCHANGED <<mmu, clock, operations, status, calls, steps>>

\* a call of FlagRegister::clear() by the host
CallClear ==
    /\ status = "ready"
    /\ presets < MaxPresets
    /\ presets' = presets + 1
    /\ registers' = [registers EXCEPT !.flags = clear(registers.flags)]
    /\ last' = BankCall("clear", 0, "")
    /\ UNCHANGED <<mmu, clock, operations, status, calls, steps>>

NextBank ==
    \/ \E w \in BankProgram : WriteByte(w[1], w[2])
    \/ \E p \in RegisterPresets : PresetRegister(p[1], p[2])
    \/ \E value \in HlWords : CallSetHl(value)
    \/ CallSetHlFromHl
    \/ \E flag \in Flags : CallSet(flag)
    \/ \E flag \in Flags : CallUnset(flag)
    \/ CallClear
    \/ Step

SpecBank == Init /\ [][NextBank]_vars

\* the step is a call on the register bank
BankCalled(op) == presets' = presets + 1 /\ last'.op = op

\* C12: hl() is combined(h, l) in every state; after set_hl(v), hl() = v, for
\* every v; set_hl(hl()) leaves h and l as they were; set_hl changes no
\* register but h and l.
C12_HlStep ==
    /\ hl(registers') = combined(registers'.h, registers'.l)
    /\ hl(registers') = registers'.h + 256 * registers'.l
    /\ BankCalled("set_hl") =>
           /\ hl(registers') = last'.value
           /\ \A f \in DOMAIN registers \ {"h", "l"} : registers'[f] = registers[f]
    /\ BankCalled("set_hl_from_hl") => registers' = registers

C12_HlIsThePair == (hl(registers) = combined(registers.h, registers.l)) /\ [][C12_HlStep]_vars

\* C12 witness: set_hl(0x1234) was called on a bank whose B held 0xFF
C12_Witness ==
    /\ last.op = "set_hl"
    /\ last.value = \h1234
    /\ registers.h = \h34
    /\ registers.l = \h12
    /\ registers.b = \hFF

\* C20: bits 3-0 of the flag byte are zero in every state, whatever calls of
\* set, unset and clear and whatever instructions came before; set(f) leaves
\* check(f) true, unset(f) leaves it false, each leaving the other three
\* flags as they were, and clear() leaves every check false; nothing else the
\* host does changes a flag.
C20_FlagStep ==
    /\ registers'.flags % 16 = 0
    /\ BankCalled("set") =>
           /\ check(registers'.flags, last'.flag)
           /\ \A g \in Flags \ {last'.flag} :
                  check(registers'.flags, g) <=> check(registers.flags, g)
    /\ BankCalled("unset") =>
           /\ ~check(registers'.flags, last'.flag)
           /\ \A g \in Flags \ {last'.flag} :
                  check(registers'.flags, g) <=> check(registers.flags, g)
    /\ BankCalled("clear") => \A g \in Flags : ~check(registers'.flags, g)
    /\ (BankCalled("preset") \/ BankCalled("set_hl") \/ BankCalled("set_hl_from_hl")
            \/ Called) =>
           registers'.flags = registers.flags

C20_FlagRegister == (registers.flags % 16 = 0) /\ [][C20_FlagStep]_vars

\* C20 witness: set(Zero) was called on a flag register that had Carry set,
\* and both are set
C20_Witness ==
    /\ last.op = "set"
    /\ last.flag = "Zero"
    /\ ExactlyFlags(registers.flags, {"Zero", "Carry"})

(***************************************************************************)
(* The instructions, as the run loop executes them (Spec).                 *)
(***************************************************************************)
\* the step executes the instruction whose opcode byte is k
Executes(k) == Stepped /\ Fetches(k) /\ last'.outcome = "executed"

\* the pair a 16-bit increment or decrement opcode names
Pair16 ==
    [k \in {\h03, \h13, \h23, \h0B, \h1B, \h2B} |->
        CASE k \in {\h03, \h0B} -> <<"b", "c">>
          [] k \in {\h13, \h1B} -> <<"d", "e">>
          [] k \in {\h23, \h2B} -> <<"h", "l">>]

Increments16 == {\h03, \h13, \h23}
Decrements16 == {\h0B, \h1B, \h2B}
AddsToHl == {\h09, \h19, \h29}

\* the flags the result of a 16-bit instruction implies: Carry when it does
\* not fit, Zero when it is 0, none otherwise
OwnFlags16(k) ==
    LET p == IF k \in AddsToHl THEN hl(registers)
             ELSE combined(registers[Pair16[k][1]], registers[Pair16[k][2]])
        result == IF k \in AddsToHl THEN p + p
                  ELSE IF k \in Increments16 THEN p + 1 ELSE p - 1
    IN  IF result < 0 \/ result > 65535 THEN {"Carry"}
        ELSE IF result = 0 THEN {"Zero"}
        ELSE {}

\* C13: the 16-bit increments and decrements and the adds to HL clear the
\* flags before they compute: after one of them, whatever the flags before,
\* exactly the flags its own result implies are set.
C13_ArithmeticStep ==
    \A k \in Increments16 \cup Decrements16 \cup AddsToHl :
        Executes(k) => ExactlyFlags(registers'.flags, OwnFlags16(k))

C13_ArithmeticClearsFlags == [][C13_ArithmeticStep]_vars

\* C14: a 16-bit increment of a pair holding p < 0xFFFF leaves it holding
\* p + 1, a 16-bit decrement of a pair holding p > 0 leaves it holding p - 1
\* and sets Zero when that is 0, the result split into the two cells; at
\* p = 0xFFFF (increment) or p = 0 (decrement) Carry is set and both cells keep
\* their bytes; no register outside the pair is changed.
C14_Pair16Step ==
    \A k \in DOMAIN Pair16 :
        Executes(k) =>
            \E regA \in {Pair16[k][1]}, regB \in {Pair16[k][2]} :
              \E p \in {combined(registers[regA], registers[regB])} :
                /\ (k \in Increments16 /\ p < 65535) =>
                       /\ combined(registers'[regA], registers'[regB]) = p + 1
                       /\ <<registers'[regA], registers'[regB]>> = split(p + 1)
                /\ (k \in Decrements16 /\ p > 0) =>
                       /\ combined(registers'[regA], registers'[regB]) = p - 1
                       /\ <<registers'[regA], registers'[regB]>> = split(p - 1)
                       /\ (p - 1 = 0) => check(registers'.flags, "Zero")
                /\ ((k \in Increments16 /\ p = 65535) \/ (k \in Decrements16 /\ p = 0)) =>
                       /\ check(registers'.flags, "Carry")
                       /\ registers'[regA] = registers[regA]
                       /\ registers'[regB] = registers[regB]
                /\ \A f \in BankFields \ {regA, regB, "flags"} :
                       registers'[f] = registers[f]

C14_Pair16 == [][C14_Pair16Step]_vars

\* C14 witness: opcode 0x03 has run with BC = 0xFFFF and left Carry set
C14_Witness ==
    /\ last.op = "run"
    /\ last.value = \h03
    /\ last.outcome = "executed"
    /\ registers.b = 255
    /\ registers.c = 255
    /\ check(registers.flags, "Carry")

\* the handler of each add to HL
AddToHlHandler ==
    [k \in AddsToHl |->
        CASE k = \h09 -> "add_bc_to_hl" [] k = \h19 -> "add_de_to_hl"
          [] k = \h29 -> "add_hl_to_hl"]

\* C15: an add to HL (0x09, 0x19, 0x29) adds hl() to itself and reads no other
\* register: HL and the flags afterwards are those the same instruction leaves
\* with B, C, D and E all 0; if 2 * hl() fits in 16 bits HL holds it and Zero
\* is set when it is 0, otherwise Carry is set and H and L keep their bytes;
\* B, C, D and E are never changed.
C15_AddToHlStep ==
    \A k \in AddsToHl :
        Executes(k) =>
            \E v \in {hl(registers)} :
              \E zeroed \in {invoke(AddToHlHandler[k],
                                    [registers EXCEPT !.b = 0, !.c = 0, !.d = 0, !.e = 0],
                                    mmu, << >>).registers} :
                /\ registers'.h = zeroed.h
                /\ registers'.l = zeroed.l
                /\ registers'.flags = zeroed.flags
                /\ (2 * v <= 65535) =>
                       /\ hl(registers') = 2 * v
                       /\ (2 * v = 0) => check(registers'.flags, "Zero")
                /\ (2 * v > 65535) =>
                       /\ check(registers'.flags, "Carry")
                       /\ registers'.h = registers.h
                       /\ registers'.l = registers.l
                /\ \A f \in {"b", "c", "d", "e"} : registers'[f] = registers[f]

C15_AddToHl == [][C15_AddToHlStep]_vars

\* C15 witness: opcode 0x09 has run with B = 0xFF and HL = 0x00FF, and HL is 0x01FE
C15_Witness ==
    /\ last.op = "run"
    /\ last.value = \h09
    /\ last.outcome = "executed"
    /\ registers.b = 255
    /\ registers.h = \hFE
    /\ registers.l = \h01

\* C16: opcode 0x05, whatever the flags before: with B = 0 it leaves B = 0 and
\* exactly Carry set; with B = 1 it leaves B = 0 and exactly Zero set; with any
\* other B it leaves B - 1 and no flag set.
C16_DecrementBStep ==
    Executes(\h05) =>
        \E r \in {registers.b} :
            IF r = 0
            THEN registers'.b = 0 /\ ExactlyFlags(registers'.flags, {"Carry"})
            ELSE IF r = 1
            THEN registers'.b = 0 /\ ExactlyFlags(registers'.flags, {"Zero"})
            ELSE registers'.b = r - 1 /\ ExactlyFlags(registers'.flags, {})

C16_DecrementB == [][C16_DecrementBStep]_vars

\* C16 witness: opcode 0x05 has run with B = 1 and left B = 0 and exactly Zero set
C16_Witness ==
    /\ last.op = "run"
    /\ last.value = \h05
    /\ last.outcome = "executed"
    /\ registers.b = 0
    /\ ExactlyFlags(registers.flags, {"Zero"})

\* C17: the loads copy and leave the flags alone: 0x06 leaves B holding the
\* byte at pc + 1; 0x01 leaves B holding the byte at pc + 1 and C the byte at
\* pc + 2; 0x02 leaves the byte at address combined(B, C) holding A; the flags
\* and every register that is not the destination are as they were.
C17_LoadStep ==
    /\ Executes(\h06) =>
           /\ registers'.b = Unwrap(read_byte(mmu, registers.pc + 1))
           /\ \A f \in BankFields \ {"b"} : registers'[f] = registers[f]
           /\ mmu' = mmu
    /\ Executes(\h01) =>
           /\ registers'.b = Unwrap(read_byte(mmu, registers.pc + 1))
           /\ registers'.c = Unwrap(read_byte(mmu, registers.pc + 2))
           /\ \A f \in BankFields \ {"b", "c"} : registers'[f] = registers[f]
           /\ mmu' = mmu
    /\ Executes(\h02) =>
           /\ read_byte(mmu', combined(registers.b, registers.c)) = Some(registers.a)
           /\ \A f \in BankFields : registers'[f] = registers[f]

C17_Loads == [][C17_LoadStep]_vars

\* C17 witness: opcode 0x02 has run with A = 0xFF and BC = 0x00FF, and the
\* byte at 0x00FF is 0xFF
C17_Witness ==
    /\ last.op = "run"
    /\ last.value = \h02
    /\ last.outcome = "executed"
    /\ registers.a = 255
    /\ registers.b = 255
    /\ registers.c = 0
    /\ read_byte(mmu, \h00FF) = Some(255)

(***************************************************************************)
(* Word access (SpecMMU).                                                  *)
(***************************************************************************)
\* the byte behind the one at addr in the buffer addr lives in
NextInBuffer(m, addr) ==
    LET loc == to_register(get_location(addr))
    IN  VecGet(m, loc.register, loc.offset + 1)

\* addr + 1 is an address of the region addr is in
NextInSameRegion(addr) ==
    /\ addr + 1 <= 65535
    /\ ~InvalidAddress(addr + 1)
    /\ get_location(addr + 1).region = get_location(addr).region

\* what read_word returns for the address of the last call, from the two bytes
ReadWordFromBytes ==
    (last.op = "read_word" /\ last.outcome = "ok") =>
        /\ IsSome(last.ret) <=>
               (IsSome(read_byte(mmu, last.addr)) /\ IsSome(NextInBuffer(mmu, last.addr)))
        /\ IsSome(last.ret) =>
               Unwrap(last.ret) = Unwrap(read_byte(mmu, last.addr))
                                      + 256 * Unwrap(NextInBuffer(mmu, last.addr))

\* C18 as stated: after a write_word(a, w) that does not fail, read_byte(a) is
\* the low byte of w, read_byte(a + 1) the high byte, and read_word(a) is w;
\* read_word(a) returns a value exactly when read_byte(a) and the next byte of
\* the same region are present, and it is read_byte(a) + 256 * the next byte.
C18_WordIsTwoBytes ==
    /\ (last.op = "write_word" /\ last.outcome = "ok") =>
           /\ read_byte(mmu, last.addr) = Some(last.value % 256)
           /\ last.addr + 1 <= 65535
           /\ ~InvalidAddress(last.addr + 1)
           /\ read_byte(mmu, last.addr + 1) = Some(last.value \div 256)
           /\ read_word(mmu, last.addr) = Some(last.value)
    /\ ReadWordFromBytes

\* C18, amended: after a write_word(a, w) that does not fail, read_byte(a) is
\* the low byte of w, the byte behind it in the same buffer is the high byte,
\* which is read_byte(a + 1) when a + 1 is an address of the region a is in,
\* and read_word(a) is w; read_word(a) returns a value exactly when
\* read_byte(a) and the next byte of the same buffer are present, and it is
\* read_byte(a) + 256 * the next byte.
C18_WordIsTwoBytesOfOneRegion ==
    /\ (last.op = "write_word" /\ last.outcome = "ok") =>
           /\ read_byte(mmu, last.addr) = Some(last.value % 256)
           /\ NextInBuffer(mmu, last.addr) = Some(last.value \div 256)
           /\ NextInSameRegion(last.addr) =>
                  read_byte(mmu, last.addr + 1) = Some(last.value \div 256)
           /\ read_word(mmu, last.addr) = Some(last.value)
    /\ ReadWordFromBytes

\* C18 witness: write_word(0xC010, 0x1234) was called, and 0xC010 holds 0x34
\* and 0xC011 holds 0x12
C18_Witness ==
    /\ last.op = "write_word"
    /\ last.outcome = "ok"
    /\ last.addr = \hC010
    /\ last.value = \h1234
    /\ read_byte(mmu, \hC010) = Some(\h34)
    /\ read_byte(mmu, \hC011) = Some(\h12)

(***************************************************************************)
(* The run loop at the end of the address space, where a read is absent:   *)
(* the host loads an instruction with operands at the last addresses of    *)
(* High RAM, sets pc and registers, then calls run.                        *)
(***************************************************************************)
\* a 1-operand and a 2-operand instruction at 0xFFFE, a 2-operand one at 0xFFFD
RetryProgram == {<<\hFFFE, \h06>>, <<\hFFFE, \h01>>, <<\hFFFD, \h01>>, <<\hFFFD, \h04>>}

\* pc at those addresses, and at 0xFFFF
RetryPcValues == {\hFFFD, \hFFFE, \hFFFF}

\* a register the host sets before it calls run
RetryPresets == {<<"b", \hFF>>, <<"a", \h01>>}

NextRetry ==
    \/ \E w \in RetryProgram : WriteByte(w[1], w[2])
    \/ \E p \in RetryPresets : PresetRegister(p[1], p[2])
    \/ \E value \in RetryPcValues : PresetPc(value)
    \/ \E flag \in {"Zero", "Carry"} : SetFlag(flag)
    \/ Step

SpecRetry == Init /\ [][NextRetry]_vars

\* the byte at addr reads as absent
Absent(addr) == addr <= 65535 /\ ~InvalidAddress(addr) /\ ~IsSome(read_byte(mmu, addr))

\* the byte at addr is read
Present(addr) == addr <= 65535 /\ ~InvalidAddress(addr) /\ IsSome(read_byte(mmu, addr))

\* the iteration that starts here finds the opcode byte or one of its
\* operand bytes absent
AbsentByte ==
    \/ Absent(registers.pc)
    \/ /\ FetchesSome
       /\ IsSome(operations_get(operations, FetchedByte))
       /\ \E n \in {arity(SM83_OPERATIONS[FetchedByte])} :
              \/ n >= 1 /\ Absent(registers.pc + 1)
              \/ n = 2 /\ Present(registers.pc + 1) /\ Absent(registers.pc + 2)

\* C21: an iteration that finds the byte at pc or an operand byte absent calls
\* no handler and changes nothing: pc, the registers, the flags, the clocks
\* and the memory are as before and the loop goes on; the iteration after it
\* finds the same, without end.
C21_RetryStep ==
    /\ (Stepped /\ AbsentByte) =>
           /\ last'.outcome = "retry"
           /\ status' = "running"
           /\ registers' = registers
           /\ clock' = clock
           /\ mmu' = mmu
    /\ (Stepped /\ last.op = "run" /\ last.outcome = "retry") =>
           /\ AbsentByte
           /\ last'.outcome = "retry"
    /\ (Stepped /\ last'.outcome = "retry") => AbsentByte

C21_AbsentByteRetries == [][C21_RetryStep]_vars

\* C21 witness: the second iteration in a row has found the second operand of
\* 0x01 at 0xFFFD absent, B and the flags being as the host set them
C21_Witness ==
    /\ steps = 2
    /\ last.op = "run"
    /\ last.addr = \hFFFD
    /\ last.value = \h01
    /\ last.outcome = "retry"
    /\ status = "running"

\* the ways the claim lets run end: an unknown opcode, an access to the
\* unusable range, a store outside its buffer
ListedFatalErrors ==
    {"panic_unknown_opcode", "panic_invalid_address", "panic_index_out_of_bounds"}

\* C22: run never returns: after any number of iterations it is still
\* iterating, or it has ended in one of the fatal errors the claim lists
\* (unknown opcode, unusable range, out-of-bounds store).
C22_RunIteratesOrEndsAsListed ==
    last.op = "run" =>
        /\ last.outcome \in {"executed", "retry"} \cup ListedFatalErrors
        /\ status \in {"running"} \cup ListedFatalErrors
        /\ (status = "running") = (last.outcome \in {"executed", "retry"})

\* the handlers with an empty body (opcodes.rs 45-47, 250-260)
EmptyHandlers == {"nop", "rotate_a_left_with_carry", "load_sp_into_immediate_address", "stop"}

\* the opcode bytes whose table entry names an empty handler: 0x00, 0x07,
\* 0x08, 0x10 and every byte the table fills with nop
Placeholders == {k \in U8 : SM83_OPERATIONS[k].handler \in EmptyHandlers}

\* C23: an executed opcode whose table entry is the no-op placeholder (0x00,
\* the empty handlers 0x07, 0x08 and 0x10, and every unimplemented opcode)
\* leaves A, B, C, D, E, H, L, the flags, sp, pc and all memory as they were;
\* only the clock registers m and t are written.
C23_PlaceholderStep ==
    (Stepped /\ FetchesSome /\ FetchedByte \in Placeholders /\ last'.outcome = "executed") =>
        /\ \A f \in BankFields : registers'[f] = registers[f]
        /\ mmu' = mmu
        /\ registers' = [registers EXCEPT !.m = 1, !.t = 4]

C23_PlaceholdersChangeNothing ==
    /\ {\h00, \h07, \h08, \h10, \hD3, \hFF} \subseteq Placeholders
    /\ Placeholders \cap {\h04, \h34, \h02, \h29} = {}
    /\ [][C23_PlaceholderStep]_vars

\* C23 witness: 0x08 has been executed with its two operand bytes in memory,
\* A = 0xFF and the Subtract flag set by the host, and both are as they were
C23_Witness ==
    /\ last.op = "run"
    /\ last.value = \h08
    /\ last.outcome = "executed"
    /\ registers.a = \hFF
    /\ ExactlyFlags(registers.flags, {"Subtract"})
    /\ read_byte(mmu, 1) = Some(DataByte)
    /\ registers.m = 1

(***************************************************************************)
(* Instructions executed one after another on a new CPU, each taken from   *)
(* the table by its opcode byte and called as the match of run calls it.   *)
(***************************************************************************)
\* the number of instructions executed
MaxInstructions == 6

\* one opcode byte for each handler body, with the operand bytes it is given
FreshProgram ==
    ({\h00, \h02, \h03, \h04, \h05, \h0B, \h29, \h34} \X {<< >>})
        \cup {<<\h06, <<\hFF>>>>, <<\h01, <<\hFF, \h00>>>>, <<\h08, <<\hFF, \hFF>>>>}

\* `SM83_OPERATIONS.get(&opcode)`, the match on the descriptor and the call of
\* the handler (sm83.rs 45-71, 86-94)
Execute(code, imm) ==
    /\ status \in {"ready", "running"}
    /\ steps < MaxInstructions
    /\ steps' = steps + 1
    /\ Len(imm) = arity(SM83_OPERATIONS[code])
    /\ \E res \in {invoke(SM83_OPERATIONS[code].handler, registers, mmu, imm)} :
           /\ registers' = res.registers
           /\ mmu' = res.mmu
           /\ status' = IF res.outcome = "ok" THEN "running" ELSE res.outcome
           /\ last' = [op |-> "execute", addr |-> registers.pc, value |-> code,
                       ret |-> None,
                       outcome |-> IF res.outcome = "ok" THEN "executed" ELSE res.outcome]
    /\ UNCHANGED <<clock, operations, calls, presets>>

NextFresh == \E w \in FreshProgram : Execute(w[1], w[2])

SpecFresh == Init /\ [][NextFresh]_vars

\* C24: on a CPU that starts from a new register bank, whatever instructions
\* of the table have been executed, the Subtract flag and the HalfCarry flag
\* are clear and sp is 0; the flags register holds no bit but Zero and Carry.
C24_OnlyZeroAndCarry ==
    /\ ~check(registers.flags, "Subtract")
    /\ ~check(registers.flags, "HalfCarry")
    /\ registers.sp = 0
    /\ registers.flags \in {0, Flag_value("Zero"), Flag_value("Carry"),
                            Flag_value("Zero") + Flag_value("Carry")}

\* C24 witness: after four instructions on a new bank, the last of them 0x29,
\* Zero and Carry are both set and B has been changed
C24_Witness ==
    /\ steps = 4
    /\ last.op = "execute"
    /\ last.value = \h29
    /\ last.outcome = "executed"
    /\ ExactlyFlags(registers.flags, {"Zero", "Carry"})
    /\ registers.b # 0
    /\ registers.sp = 0

(***************************************************************************)
(* Stores: the host writes a program and data with write_byte, some of it  *)
(* in Work RAM and its echo, points BC and HL there, and calls run.        *)
(***************************************************************************)
\* one opcode byte for each handler body
StoreOpcodes == {\h00, \h01, \h02, \h03, \h04, \h05, \h06, \h08, \h0B, \h29, \h34}

\* the opcode at 0x0000, an operand byte, and data in Work RAM and Echo RAM
StoreProgram ==
    ({0} \X StoreOpcodes)
        \cup {<<1, \hFF>>, <<\hC000, \h12>>, <<\hE000, \h34>>, <<\hC001, \hFF>>}

\* A, and BC and HL at 0xE000, 0xC000 and 0xC001 (the pair is low + 256 * high
\* of its second register)
StorePresets == {<<"a", \h12>>, <<"c", \hE0>>, <<"l", \hE0>>, <<"l", \hC0>>, <<"h", \h01>>}

NextStore ==
    \/ \E w \in StoreProgram : WriteByte(w[1], w[2])
    \/ \E p \in StorePresets : PresetRegister(p[1], p[2])
    \/ Step

SpecStore == Init /\ [][NextStore]_vars

\* the byte a buffer holds at an offset
CellValue(m, cell) == IF cell[2] \in DOMAIN m[cell[1]] THEN m[cell[1]][cell[2]] ELSE 0

\* the cells of the buffers that hold another byte after the step than before
ChangedCells ==
    {cell \in UNION {{<<buf, o>> : o \in DOMAIN mmu[buf] \cup DOMAIN mmu'[buf]} : buf \in Buffers} :
        CellValue(mmu, cell) # CellValue(mmu', cell)}

\* the cell write_byte stores into for an address
CellOf(addr) ==
    LET loc == to_register(get_location(addr)) IN <<loc.register, loc.offset>>

\* the other address of the same Work RAM cell, if the address has one
EchoAlias(addr) ==
    IF addr \in EchoRam THEN addr - \h2000
    ELSE IF addr \in EchoedWorkRam THEN addr + \h2000
    ELSE addr

\* addresses read before and after a store
StoreProbes ==
    {\h0000, \h0001, \h0002, \h4000, \h8000, \hA000, \hC000, \hC001, \hC002,
     \hDFFF, \hE000, \hE001, \hE002, \hFDFF, \hFE00, \hFF00, \hFF80, \hFFFE}

\* C25: memory changes by single-cell stores only.  A write_byte(a, v) that
\* returns leaves v to be read at a and at a's Echo/Work RAM alias and changes
\* no other cell and the byte read at no other address; an iteration of run
\* changes memory only if its opcode is 0x02 or 0x34, and then at most the
\* one cell BC (for 0x02) or HL (for 0x34) addresses; nothing else the host
\* does changes memory.
C25_StoreStep ==
    /\ (Called /\ last'.op = "write_byte" /\ last'.outcome = "ok") =>
           /\ ChangedCells \subseteq {CellOf(last'.addr)}
           /\ read_byte(mmu', last'.addr) = Some(last'.value)
           /\ read_byte(mmu', EchoAlias(last'.addr)) = Some(last'.value)
           /\ \A b \in StoreProbes :
                  read_byte(mmu', b) # read_byte(mmu, b) =>
                      b \in {last'.addr, EchoAlias(last'.addr)}
    /\ (Called /\ last'.op = "write_byte" /\ last'.outcome # "ok") => mmu' = mmu
    /\ (Stepped /\ ~(FetchesSome /\ FetchedByte \in {\h02, \h34})) => mmu' = mmu
    /\ (Stepped /\ Fetches(\h02)) =>
           ChangedCells \subseteq
               (IF InvalidAddress(combined(registers.b, registers.c)) THEN {}
                ELSE {CellOf(combined(registers.b, registers.c))})
    /\ (Stepped /\ Fetches(\h34)) =>
           ChangedCells \subseteq
               (IF InvalidAddress(hl(registers)) THEN {} ELSE {CellOf(hl(registers))})
    /\ (~Called /\ ~Stepped) => mmu' = mmu

C25_SingleCellStores == [][C25_StoreStep]_vars

\* C25 witness: 0x02 has stored A = 0x12 at BC = 0xE000, and it is read at
\* 0xE000 and at 0xC000, while the opcode at 0x0000 is as it was
C25_Witness ==
    /\ last.op = "run"
    /\ last.value = \h02
    /\ last.outcome = "executed"
    /\ combined(registers.b, registers.c) = \hE000
    /\ read_byte(mmu, \hE000) = Some(\h12)
    /\ read_byte(mmu, \hC000) = Some(\h12)
    /\ read_byte(mmu, \h0000) = Some(\h02)

\* C26: opcode 0x34 clears the flags, then reads the byte at hl(): a byte
\* below 0xFF is replaced in memory by its successor and no flag is set; the
\* byte 0xFF stays in memory and exactly Carry is set; a byte that cannot be
\* read ends run in a panic, not in a retry, as does an address in the
\* unusable range.  No register but the flags (and the clocks m and t) is
\* changed, and no other memory cell.
C26_IncrementHlAddrStep ==
    (Stepped /\ Fetches(\h34)) =>
        \E addr \in {hl(registers)} :
            /\ \A f \in BankFields \ {"flags"} : registers'[f] = registers[f]
            /\ IF InvalidAddress(addr)
               THEN /\ status' = "panic_invalid_address"
                    /\ mmu' = mmu
               ELSE IF ~IsSome(read_byte(mmu, addr))
               THEN /\ last'.outcome = "panic_expect"
                    /\ status' = "panic_expect"
                    /\ mmu' = mmu
               ELSE \E byte \in {Unwrap(read_byte(mmu, addr))} :
                        /\ last'.outcome = "executed"
                        /\ status' = "running"
                        /\ ChangedCells \subseteq {CellOf(addr)}
                        /\ IF byte < \hFF
                           THEN /\ read_byte(mmu', addr) = Some(byte + 1)
                                /\ ExactlyFlags(registers'.flags, {})
                           ELSE /\ mmu' = mmu
                                /\ ExactlyFlags(registers'.flags, {"Carry"})

C26_IncrementHlAddr == [][C26_IncrementHlAddrStep]_vars

\* C26 witness: 0x34 has been executed with HL = 0x0001 and 0xFF at 0x0001:
\* the byte is still 0xFF and Carry is the one flag set
C26_Witness ==
    /\ last.op = "run"
    /\ last.value = \h34
    /\ last.outcome = "executed"
    /\ hl(registers) = 1
    /\ read_byte(mmu, 1) = Some(\hFF)
    /\ ExactlyFlags(registers.flags, {"Carry"})

====
